---- MODULE Spec2Model ----
(***************************************************************************)
(* lizard_datasource: the augmented data source.                           *)
(*                                                                         *)
(* AugmentedDataSource wraps one data source and augments its results:     *)
(* visible_criteria() hides the options that lead to a hidden input layer, *)
(* locations() colours locations from cached latest values, timeseries()   *)
(* overlays extra graph lines and fill_mapping_with_closest_locations()    *)
(* builds the proximity maps the overlays use.  ChoicesMade, OptionList    *)
(* and the Django models are not part of the sources at hand; they are     *)
(* modelled from the specification and the unit tests.                     *)
(***************************************************************************)
EXTENDS Naturals, Sequences, FiniteSets, TLC

VARIABLES
    \* ---- the AugmentedDataSource instance
    _original_datasource,   \* memoized wrapped source, Unset until first use
    _choices_made,          \* the selection stored by set_choices_made
    \* ---- the wrapped source (a recording stub)
    wrapped_choices_made,   \* the selection it last received
    wrapped_received,       \* the calls it received during the last operation
    chooseable,             \* what its chooseable_criteria() returns
    \* ---- the configuration store
    colorfroms,             \* ColorFromLatestValue rows of this configuration
    percentiles,            \* PercentileLayer rows of this configuration
    \* ---- the last call
    returned,               \* what the last operation returned
    raised,                 \* the exception it raised, or NoError
    \* ---- ChoicesMade objects
    heap,                   \* the ChoicesMade objects alive, by identity
    cm_op,                  \* the last ChoicesMade method call
    \* ---- what locations() reads
    wrapped_locations,      \* what the wrapped source's locations() yields
    datasource_cache,       \* DatasourceCache rows
    layer_colorfroms,       \* ColorFromLatestValue rows, by target layer
    \* ---- what timeseries() and the proximity mapping read
    extra_graph_lines,      \* ExtraGraphLine rows
    layer_locations,        \* the locations of each datasource layer
    collaborator_calls,     \* calls the last operation made to collaborators
    \* ---- what percentiles() reads
    percentile_layers       \* PercentileLayer rows, by target layer

instanceVars == <<_original_datasource, _choices_made>>
wrappedVars  == <<wrapped_choices_made, wrapped_received, chooseable>>
configVars   == <<colorfroms, percentiles>>
callVars     == <<returned, raised>>
filterVars   == <<instanceVars, wrappedVars, configVars, callVars>>

choicesVars  == <<heap, cm_op>>

locationVars == <<wrapped_locations, datasource_cache, layer_colorfroms>>
overlayVars  == <<extra_graph_lines, layer_locations, collaborator_calls,
                  percentile_layers>>

vars == <<filterVars, choicesVars, locationVars, overlayVars>>

\* What an operation of one component leaves alone.
notFilter  == <<choicesVars, locationVars, overlayVars>>
notChoices == <<filterVars, locationVars, overlayVars>>

(***************************************************************************)
(* Bounds of the model.                                                    *)
(***************************************************************************)
MaxOptions == 3     \* options the "parameter" criterion can have
MaxHidden  == 3     \* color-from and percentile rows of one configuration

Unset   == "unset"      \* an attribute that was never assigned
NoError == "none"
Nothing == "nothing"    \* no return value (None, or the call raised)

Range(s) == {s[i] : i \in 1..Len(s)}

(***************************************************************************)
(* Identifiers.  Python compares the keys as strings; SortedIdentifiers    *)
(* lists every identifier the model uses in that (lexicographic) order.    *)
(***************************************************************************)
SortedIdentifiers == <<"parameter", "region", "unit">>

Rank(k) == CHOOSE i \in 1..Len(SortedIdentifiers) : SortedIdentifiers[i] = k

KeyLess(k1, k2) == Rank(k1) < Rank(k2)

(***************************************************************************)
(* ChoicesMade: a mapping from criterion identifier to option identifier,  *)
(* held as the sequence of its <<key, value>> items in insertion order.    *)
(***************************************************************************)
Keys(cm) == {cm[i][1] : i \in 1..Len(cm)}

Contains(cm, key) == key \in Keys(cm)

Get(cm, key, default) ==
    IF key \in Keys(cm)
    THEN cm[CHOOSE i \in 1..Len(cm) : cm[i][1] = key][2]
    ELSE default

\* add: a new mapping, the old items plus (key, value); an old value of the
\* key is replaced.
Add(cm, key, value) ==
    IF key \in Keys(cm)
    THEN [i \in 1..Len(cm) |-> IF cm[i][1] = key THEN <<key, value>> ELSE cm[i]]
    ELSE Append(cm, <<key, value>>)

\* Criterion and Option are value objects that are equal when their
\* identifiers are: the model holds each as its identifier.
AddCriterionOption(cm, criterion, option) == Add(cm, criterion, option)

\* forget: a new mapping without the key; an absent key changes nothing.
Forget(cm, key) == SelectSeq(cm, LAMBDA item : item[1] # key)

RECURSIVE SortItems(_)
SortItems(items) ==
    IF items = <<>> THEN <<>>
    ELSE LET m == CHOOSE i \in 1..Len(items) :
                    \A j \in 1..Len(items) : ~KeyLess(items[j][1], items[i][1])
         IN  <<items[m]>> \o
             SortItems([i \in 1..(Len(items) - 1) |->
                           IF i < m THEN items[i] ELSE items[i + 1]])

RenderItem(item) == "\"" \o item[1] \o "\": \"" \o item[2] \o "\""

RECURSIVE JoinItems(_)
JoinItems(items) ==
    IF items = <<>> THEN ""
    ELSE IF Len(items) = 1 THEN RenderItem(items[1])
    ELSE RenderItem(items[1]) \o ", " \o JoinItems(Tail(items))

\* The JSON object of the items in the order given.
Dumps(items) == "{" \o JoinItems(items) \o "}"

\* A json() that forgets to sort: the items in insertion order.
JsonUnsorted(cm) == Dumps(cm)

\* json(): the JSON object with its keys sorted.
Json(cm) == Dumps(SortItems(cm))

(***************************************************************************)
(* OptionList: a sequence of options without duplicates.                   *)
(***************************************************************************)
IterOptions(options) == options

\* A minus that also drops every option in front of the one removed.
MinusThrough(options, option) ==
    IF option \in Range(options)
    THEN [raised |-> NoError,
          value  |-> SubSeq(options,
                            1 + (CHOOSE i \in 1..Len(options) :
                                     /\ options[i] = option
                                     /\ \A j \in 1..(i - 1) :
                                           options[j] # option),
                            Len(options))]
    ELSE [raised |-> "ConfigurationError", value |-> options]

\* minus: a new list without the option; an option that is not in the list
\* is a configuration error.
Minus(options, option) ==
    IF option \in Range(options)
    THEN [raised |-> NoError,
          value  |-> SelectSeq(options, LAMBDA o : o # option)]
    ELSE [raised |-> "ConfigurationError", value |-> options]

(***************************************************************************)
(* The universe the wrapped source and the configuration are drawn from.   *)
(***************************************************************************)
OptionNames == <<"a", "b", "c", "d", "e">>

ParameterOptions == [i \in 1..MaxOptions |-> OptionNames[i]]
UnitOptions      == <<"m", "cm">>

\* Every subsequence of a sequence, in its order.
SubSeqs(s) ==
    {SelectSeq(s, LAMBDA x : x \in keep) : keep \in SUBSET Range(s)}

Chooseables ==
    LET P == {[criterion |-> "parameter", options |-> o] :
                 o \in SubSeqs(ParameterOptions)}
        U == {[criterion |-> "unit", options |-> o] :
                 o \in SubSeqs(UnitOptions)}
    IN  {<<>>} \cup {<<p>> : p \in P} \cup {<<u>> : u \in U}
        \cup {<<p, u>> : p \in P, u \in U}

\* The selections a caller passes to set_choices_made.
Selections ==
    { <<>>, <<(<<"region", "north">>)>>, <<(<<"parameter", "a">>)>> }

\* A datasource layer of the configuration store: choices_made is the
\* stored string, selection the ChoicesMade the layer was made with.
Layer(cm) == [choices_made |-> Json(cm), selection |-> cm]

HiddenPrefix == <<(<<"region", "north">>)>>

\* A layer whose stored string has its keys in insertion order.
UnsortedLayer ==
    LET cm == Add(HiddenPrefix, "parameter", "a")
    IN  [choices_made |-> Dumps(cm), selection |-> cm]

ColorFromCandidates ==
    {[layer_to_get_color_from |->
          Layer(Add(HiddenPrefix, "parameter", ParameterOptions[i])),
      hide_from_layer |-> TRUE] : i \in {j \in 1..MaxOptions : j % 2 = 1}}
    \cup
    {[layer_to_get_color_from |-> Layer(Add(HiddenPrefix, "unit", "m")),
      hide_from_layer |-> TRUE],
     [layer_to_get_color_from |-> Layer(Add(HiddenPrefix, "parameter", "b")),
      hide_from_layer |-> FALSE]}

PercentileCandidates ==
    {[layer_to_get_percentile_from |->
          Layer(Add(HiddenPrefix, "parameter", ParameterOptions[i])),
      hide_from_layer |-> TRUE] : i \in {j \in 1..MaxOptions : j % 2 = 0}}
    \cup
    {[layer_to_get_percentile_from |-> Layer(Add(HiddenPrefix, "unit", "cm")),
      hide_from_layer |-> TRUE],
     [layer_to_get_percentile_from |-> UnsortedLayer,
      hide_from_layer |-> TRUE],
     [layer_to_get_percentile_from |-> Layer(<<(<<"parameter", "a">>)>>),
      hide_from_layer |-> TRUE]}

(***************************************************************************)
(* AugmentedDataSource.visible_criteria                                    *)
(***************************************************************************)
\* The rows the two queries return: those with hide_from_layer set.
HiddenColorFroms(cfs)  == {cf \in cfs : cf.hide_from_layer}
HiddenPercentiles(ps)  == {p \in ps : p.hide_from_layer}

\* The queries without their hide_from_layer condition.
AllForbiddenChoicesJson(cfs, ps) ==
    {cf.layer_to_get_color_from.choices_made : cf \in cfs}
    \cup {p.layer_to_get_percentile_from.choices_made : p \in ps}

ForbiddenChoicesJson(cfs, ps) ==
    {cf.layer_to_get_color_from.choices_made : cf \in HiddenColorFroms(cfs)}
    \cup {p.layer_to_get_percentile_from.choices_made :
             p \in HiddenPercentiles(ps)}

\* An inner loop that looks at the first option only.
FirstForbiddenHeadOnly(criterion, options, my_choices, forbidden) ==
    IF /\ options # <<>>
       /\ Json(AddCriterionOption(my_choices, criterion, options[1]))
              \in forbidden
    THEN 1 ELSE 0

\* The inner for loop: the index of the first option whose addition to
\* my_choices serializes to a forbidden string (the break), or 0 (the else).
FirstForbidden(criterion, options, my_choices, forbidden) ==
    LET it   == IterOptions(options)
        hits == {i \in 1..Len(it) :
                    Json(AddCriterionOption(my_choices, criterion, it[i]))
                        \in forbidden}
    IN  IF hits = {} THEN 0
        ELSE CHOOSE i \in hits : \A j \in hits : i <= j

\* A retry that also re-queues the last option's removal.
ShouldRetryAlways(options) == Len(options) >= 1

\* "if len(options) > 1": retry the criterion with one option removed.
ShouldRetry(options) == Len(options) > 1

\* One pass of the while loop over the chooseables from index i on:
\* acc collects retry_criteria, clean_criteria and a raised exception.
RECURSIVE ForEachChooseable(_, _, _, _, _)
ForEachChooseable(criteria, i, my_choices, forbidden, acc) ==
    IF i > Len(criteria) \/ acc.raised # NoError THEN acc
    ELSE
      LET item      == criteria[i]
          criterion == item.criterion
          options   == item.options
          hit       == FirstForbidden(criterion, options, my_choices, forbidden)
          shorter   == Minus(options, IterOptions(options)[hit])
          next ==
            IF hit = 0
            THEN [acc EXCEPT !.clean = Append(@, item)]
            ELSE IF ShouldRetry(options)
            THEN IF shorter.raised # NoError
                 THEN [acc EXCEPT !.raised = shorter.raised]
                 ELSE [acc EXCEPT !.retry =
                          Append(@, [criterion |-> criterion,
                                     options   |-> shorter.value])]
            ELSE acc
      IN  ForEachChooseable(criteria, i + 1, my_choices, forbidden, next)

\* The while loop: passes counts the times its body ran.
RECURSIVE WhileCriteria(_, _, _, _, _)
WhileCriteria(criteria, clean_criteria, my_choices, forbidden, passes) ==
    IF criteria = <<>>
    THEN [raised |-> NoError, value |-> clean_criteria, passes |-> passes]
    ELSE
      LET acc == ForEachChooseable(criteria, 1, my_choices, forbidden,
                     [retry |-> <<>>, clean |-> clean_criteria,
                      raised |-> NoError])
      IN  IF acc.raised # NoError
          THEN [raised |-> acc.raised, value |-> <<>>, passes |-> passes + 1]
          ELSE WhileCriteria(acc.retry, acc.clean, my_choices, forbidden,
                             passes + 1)

\* A visible_criteria() that refuses a forbidden string that no option of
\* the chooseable criteria can produce.
FilterCriteriaStrict(criteria, cfs, ps, my_choices) ==
    LET forbidden == ForbiddenChoicesJson(cfs, ps)
        producible ==
            {Json(AddCriterionOption(my_choices, criteria[i].criterion, o)) :
                 <<i, o>> \in {<<j, x>> \in (1..Len(criteria)) \X Range(OptionNames \o UnitOptions) :
                                  x \in Range(criteria[j].options)}}
    IN  IF forbidden \subseteq producible
        THEN WhileCriteria(criteria, <<>>, my_choices, forbidden, 0)
        ELSE [raised |-> "ConfigurationError", value |-> <<>>, passes |-> 0]

\* visible_criteria() for a stored selection.
FilterCriteria(criteria, cfs, ps, my_choices) ==
    WhileCriteria(criteria, <<>>, my_choices,
                  ForbiddenChoicesJson(cfs, ps), 0)

(***************************************************************************)
(* The operations of an AugmentedDataSource instance.                      *)
(***************************************************************************)
None    == <<>>         \* an attribute or value that is not there
Some(x) == <<x>>

\* An original_datasource without the hasattr test: every access after the
\* first resolves the wrapped source again and gets another object.
OriginalDatasourceUnmemoized(memo) ==
    IF memo = "wrapped" THEN "wrapped, resolved again" ELSE "wrapped"

\* original_datasource: resolved on first use, then kept.
OriginalDatasource(memo) == IF memo = Unset THEN "wrapped" ELSE memo

\* set_choices_made forgetting to forward the selection.
SetChoicesMadeLocalOnly(choices_made) ==
    /\ _choices_made' = Some(choices_made)
    /\ UNCHANGED <<_original_datasource, wrapped_choices_made>>
    /\ wrapped_received' = <<>>
    /\ returned' = [op |-> "set_choices_made", arg |-> choices_made]
    /\ raised' = NoError
    /\ UNCHANGED <<chooseable, configVars, notFilter>>

\* set_choices_made: store the selection and forward it.
SetChoicesMade(choices_made) ==
    /\ _choices_made' = Some(choices_made)
    /\ _original_datasource' = OriginalDatasource(_original_datasource)
    /\ wrapped_choices_made' = Some(choices_made)
    /\ wrapped_received' =
           <<[method |-> "set_choices_made", arg |-> choices_made]>>
    /\ returned' = [op |-> "set_choices_made", arg |-> choices_made]
    /\ raised' = NoError
    /\ UNCHANGED <<chooseable, configVars, notFilter>>

\* visible_criteria: reading self._choices_made before any
\* set_choices_made is an AttributeError.
VisibleCriteria ==
    /\ _original_datasource' = OriginalDatasource(_original_datasource)
    /\ wrapped_received' = <<[method |-> "chooseable_criteria"]>>
    /\ IF _choices_made = None
       THEN /\ raised' = "AttributeError"
            /\ returned' = [op |-> "visible_criteria", value |-> <<>>,
                            passes |-> 0]
       ELSE LET r == FilterCriteria(chooseable, colorfroms, percentiles,
                                    _choices_made[1])
            IN  /\ raised' = r.raised
                /\ returned' = [op |-> "visible_criteria", value |-> r.value,
                                passes |-> r.passes]
    /\ UNCHANGED <<_choices_made, wrapped_choices_made, chooseable, configVars,
                   notFilter>>

\* An instance that was just constructed, before any call.
InstanceInit ==
    /\ _original_datasource = Unset
    /\ _choices_made = None
    /\ wrapped_choices_made = None
    /\ wrapped_received = <<>>
    /\ returned = [op |-> "none"]
    /\ raised = NoError

FilterIdle ==
    /\ InstanceInit
    /\ chooseable = <<>>
    /\ colorfroms = {}
    /\ percentiles = {}

ChoicesIdle ==
    /\ heap = <<>>
    /\ cm_op = [op |-> "none"]

LocationsIdle ==
    /\ wrapped_locations = <<>>
    /\ datasource_cache = <<>>
    /\ layer_colorfroms = {}

OverlayIdle ==
    /\ extra_graph_lines = <<>>
    /\ layer_locations = <<>>
    /\ collaborator_calls = <<>>
    /\ percentile_layers = <<>>

Init ==
    /\ InstanceInit
    /\ chooseable \in Chooseables
    /\ colorfroms \in SUBSET ColorFromCandidates
    /\ percentiles \in SUBSET PercentileCandidates
    /\ Cardinality(colorfroms) + Cardinality(percentiles) <= MaxHidden
    /\ ChoicesIdle
    /\ LocationsIdle
    /\ OverlayIdle

Next ==
    \/ \E cm \in Selections : SetChoicesMade(cm)
    \/ VisibleCriteria

Spec == Init /\ [][Next]_vars

(***************************************************************************)
(* What the claims about visible_criteria() are stated with.               *)
(***************************************************************************)
\* visible_criteria() returned normally, for the stored selection.
Filtered ==
    /\ returned.op = "visible_criteria"
    /\ raised = NoError
    /\ _choices_made # None

\* The choices_made strings of the rows marked hide_from_layer.
HiddenStrings ==
    {cf.layer_to_get_color_from.choices_made :
        cf \in {c \in colorfroms : c.hide_from_layer = TRUE}}
    \cup
    {pc.layer_to_get_percentile_from.choices_made :
        pc \in {c \in percentiles : c.hide_from_layer = TRUE}}

\* The serialization of the stored selection extended with one choice.
Extended(criterion, option) ==
    Json(Add(_choices_made[1], criterion, option))

IsForbidden(criterion, option) == Extended(criterion, option) \in HiddenStrings

\* The pairs of the output for one criterion.
OutputPairs(criterion) ==
    {i \in 1..Len(returned.value) : returned.value[i].criterion = criterion}

\* C1: after set_choices_made(S), no option of any pair that
\* visible_criteria() returns extends S to a forbidden string.
C1_FilterSound ==
    Filtered =>
        \A i \in 1..Len(returned.value) :
            \A o \in Range(returned.value[i].options) :
                ~IsForbidden(returned.value[i].criterion, o)

\* visible_criteria() removed a forbidden option and kept the pair.
C1_Witness ==
    /\ Filtered
    /\ \E i \in 1..Len(chooseable) :
          /\ \E o \in Range(chooseable[i].options) :
                IsForbidden(chooseable[i].criterion, o)
          /\ OutputPairs(chooseable[i].criterion) # {}

\* C2: every option of an input pair whose extension of the selection is
\* not forbidden is in the OptionList returned for its criterion, and the
\* options returned keep the order of the input.
C2_NoOverRemoval ==
    Filtered =>
        \A i \in 1..Len(chooseable) :
            LET kept == SelectSeq(chooseable[i].options,
                            LAMBDA o : ~IsForbidden(chooseable[i].criterion, o))
            IN  kept # <<>> =>
                    \E j \in OutputPairs(chooseable[i].criterion) :
                        returned.value[j].options = kept

\* Of the options a, b, c only b is forbidden, and a, c are returned.
C2_Witness ==
    /\ Filtered
    /\ \E i \in 1..Len(chooseable) :
          /\ chooseable[i].options = <<"a", "b", "c">>
          /\ {o \in {"a", "b", "c"} : IsForbidden(chooseable[i].criterion, o)}
                = {"b"}
          /\ \E j \in OutputPairs(chooseable[i].criterion) :
                returned.value[j].options = <<"a", "c">>

\* C3 as stated: a criterion all of whose options are forbidden has no pair
\* in the output, no pair of the output has an empty OptionList, and each
\* input pair gives at most one output pair.
C3_AsStated ==
    Filtered =>
        /\ \A i \in 1..Len(chooseable) :
              (\A o \in Range(chooseable[i].options) :
                    IsForbidden(chooseable[i].criterion, o))
                 => OutputPairs(chooseable[i].criterion) = {}
        /\ \A i \in 1..Len(chooseable) :
              Cardinality(OutputPairs(chooseable[i].criterion)) <= 1

\* C3, amended: a criterion that has options, all of them forbidden, has no
\* pair in the output; a pair of the output with an empty OptionList is an
\* input pair that was empty already; each input pair gives at most one
\* output pair.
C3_WholeCriterionRemoved ==
    Filtered =>
        /\ \A i \in 1..Len(chooseable) :
              (/\ chooseable[i].options # <<>>
               /\ \A o \in Range(chooseable[i].options) :
                     IsForbidden(chooseable[i].criterion, o))
                 => OutputPairs(chooseable[i].criterion) = {}
        /\ \A j \in 1..Len(returned.value) :
              returned.value[j].options = <<>> =>
                  \E i \in 1..Len(chooseable) : chooseable[i] = returned.value[j]
        /\ \A i \in 1..Len(chooseable) :
              Cardinality(OutputPairs(chooseable[i].criterion)) <= 1

\* The options a, b, c are all forbidden, by three rows, and the criterion
\* is not in the output while another criterion is.
C3_Witness ==
    /\ Filtered
    /\ Cardinality(HiddenStrings) >= 3
    /\ \E i \in 1..Len(chooseable) :
          /\ chooseable[i].options = <<"a", "b", "c">>
          /\ \A o \in {"a", "b", "c"} : IsForbidden(chooseable[i].criterion, o)
          /\ OutputPairs(chooseable[i].criterion) = {}
    /\ returned.value # <<>>

\* A pair of the selection a hidden layer was made with that is neither in
\* the stored selection nor an option of a chooseable criterion.
UnknownPair(item) ==
    /\ item \notin Range(_choices_made[1])
    /\ ~\E i \in 1..Len(chooseable) :
          /\ chooseable[i].criterion = item[1]
          /\ item[2] \in Range(chooseable[i].options)

HiddenLayers ==
    {cf.layer_to_get_color_from :
        cf \in {c \in colorfroms : c.hide_from_layer = TRUE}}
    \cup
    {pc.layer_to_get_percentile_from :
        pc \in {c \in percentiles : c.hide_from_layer = TRUE}}

StaleLayers ==
    {l \in HiddenLayers : \E item \in Range(l.selection) : UnknownPair(item)}

\* C4 as stated: with a hidden row that references a criterion or option
\* that does not exist, visible_criteria() raises ConfigurationError.
C4_AsStated ==
    (/\ returned.op = "visible_criteria"
     /\ _choices_made # None
     /\ StaleLayers # {})
        => raised = "ConfigurationError"

\* C4, amended: such a row raises nothing; visible_criteria() returns what
\* it returns without the rows of the stale layers.
C4_StaleRowIgnored ==
    (/\ returned.op = "visible_criteria"
     /\ _choices_made # None
     /\ StaleLayers # {})
        => /\ raised = NoError
           /\ returned.value =
                WhileCriteria(chooseable, <<>>, _choices_made[1],
                    HiddenStrings \ {l.choices_made : l \in StaleLayers},
                    0).value

\* A stale row next to a row that removes an option.
C4_Witness ==
    /\ returned.op = "visible_criteria"
    /\ _choices_made # None
    /\ StaleLayers # {}
    /\ HiddenLayers \ StaleLayers # {}
    /\ returned.value # chooseable

\* C5: a set_choices_made call leaves its argument in the augmenter and in
\* the wrapped source, which receives exactly that one call; no other
\* operation changes either selection.
C5_SelectionStoredAndForwarded ==
    [][ /\ returned'.op = "set_choices_made" =>
              /\ _choices_made' = Some(returned'.arg)
              /\ wrapped_choices_made' = Some(returned'.arg)
              /\ wrapped_received' =
                    <<[method |-> "set_choices_made", arg |-> returned'.arg]>>
        /\ returned'.op # "set_choices_made" =>
              UNCHANGED <<_choices_made, wrapped_choices_made>>
      ]_vars

\* A selection was set, visible_criteria() ran, and both selections are the
\* one that was set.
C5_Witness ==
    /\ returned.op = "visible_criteria"
    /\ _choices_made = Some(HiddenPrefix)
    /\ wrapped_choices_made = Some(HiddenPrefix)

(***************************************************************************)
(* ChoicesMade objects.  heap[i] is the mapping of the i-th object made;   *)
(* a method that returns a new ChoicesMade appends its result.             *)
(***************************************************************************)
MaxObjects == 3     \* ChoicesMade objects in one behaviour

ChoiceKeys   == {"parameter", "region"}
ChoiceValues == {"a", "b"}

\* The mappings a constructor call can build: every order of every set of
\* keys, with every value.
ConstructedChoices ==
    {<<>>}
    \cup {<<(<<k, v>>)>> : k \in ChoiceKeys, v \in ChoiceValues}
    \cup {<<(<<k1, v1>>), (<<k2, v2>>)>> :
             <<k1, k2>> \in {kk \in ChoiceKeys \X ChoiceKeys : kk[1] # kk[2]},
             <<v1, v2>> \in ChoiceValues \X ChoiceValues}

\* An add that updates the receiver and returns a copy of it.
HeapAddInPlace(h, receiver, key, value) ==
    Append([h EXCEPT ![receiver] = Add(h[receiver], key, value)],
           Add(h[receiver], key, value))

HeapAdd(h, receiver, key, value) ==
    Append(h, Add(h[receiver], key, value))

HeapAddCriterionOption(h, receiver, criterion, option) ==
    Append(h, AddCriterionOption(h[receiver], criterion, option))

HeapForget(h, receiver, key) ==
    Append(h, Forget(h[receiver], key))

ChoicesAdd(receiver, key, value) ==
    /\ Len(heap) < MaxObjects
    /\ heap' = HeapAdd(heap, receiver, key, value)
    /\ cm_op' = [op |-> "add", receiver |-> receiver, key |-> key,
                 value |-> value]
    /\ UNCHANGED notChoices

ChoicesAddCriterionOption(receiver, criterion, option) ==
    /\ Len(heap) < MaxObjects
    /\ heap' = HeapAddCriterionOption(heap, receiver, criterion, option)
    /\ cm_op' = [op |-> "add_criterion_option", receiver |-> receiver,
                 key |-> criterion, value |-> option]
    /\ UNCHANGED notChoices

ChoicesForget(receiver, key) ==
    /\ Len(heap) < MaxObjects
    /\ heap' = HeapForget(heap, receiver, key)
    /\ cm_op' = [op |-> "forget", receiver |-> receiver, key |-> key]
    /\ UNCHANGED notChoices

InitChoices ==
    /\ FilterIdle
    /\ LocationsIdle
    /\ OverlayIdle
    /\ heap \in {<<cm>> : cm \in ConstructedChoices}
    /\ cm_op = [op |-> "none"]

NextChoices ==
    \/ \E r \in 1..Len(heap), k \in ChoiceKeys, v \in ChoiceValues :
          ChoicesAdd(r, k, v)
    \/ \E r \in 1..Len(heap), k \in ChoiceKeys, v \in ChoiceValues :
          ChoicesAddCriterionOption(r, k, v)
    \/ \E r \in 1..Len(heap), k \in ChoiceKeys : ChoicesForget(r, k)

SpecChoices == InitChoices /\ [][NextChoices]_vars

\* Two ChoicesMade hold the same key/value mapping.
SameMapping(cm1, cm2) ==
    /\ Keys(cm1) = Keys(cm2)
    /\ \A k \in Keys(cm1) : Get(cm1, k, Nothing) = Get(cm2, k, Nothing)

\* C6: json() renders the keys in sorted order: two ChoicesMade serialize
\* to the same string exactly when they hold the same mapping, whatever the
\* order their keys were supplied or added in.
C6_JsonCanonical ==
    /\ \A i, j \in 1..Len(heap) :
          SameMapping(heap[i], heap[j]) <=> Json(heap[i]) = Json(heap[j])
    /\ \A i \in 1..Len(heap) :
          SameMapping(heap[i], <<(<<"region", "b">>), (<<"parameter", "a">>)>>)
              => Json(heap[i]) = "{\"parameter\": \"a\", \"region\": \"b\"}"

\* Two objects hold the same two pairs in opposite insertion orders.
C6_Witness ==
    \E i, j \in 1..Len(heap) :
        /\ Len(heap[i]) = 2
        /\ heap[i] # heap[j]
        /\ SameMapping(heap[i], heap[j])
        /\ cm_op.op = "add"

\* C7: add, add_criterion_option and forget leave every existing
\* ChoicesMade as it was and return a new one: the receiver's mapping with
\* the pair set, or without the key.
C7_ReceiverNeverMutated ==
    [][ /\ Len(heap') = Len(heap) + 1
        /\ \A i \in 1..Len(heap) : heap'[i] = heap[i]
        /\ LET old == heap[cm_op'.receiver]
               new == heap'[Len(heap')]
           IN  IF cm_op'.op = "forget"
               THEN /\ Keys(new) = Keys(old) \ {cm_op'.key}
                    /\ \A k \in Keys(new) :
                          Get(new, k, Nothing) = Get(old, k, Nothing)
               ELSE /\ Keys(new) = Keys(old) \cup {cm_op'.key}
                    /\ Get(new, cm_op'.key, Nothing) = cm_op'.value
                    /\ \A k \in Keys(old) \ {cm_op'.key} :
                          Get(new, k, Nothing) = Get(old, k, Nothing)
      ]_vars

\* forget of a key the receiver does not hold, on a receiver that add made.
C7_Witness ==
    /\ cm_op.op = "forget"
    /\ cm_op.receiver > 1
    /\ heap[cm_op.receiver] # <<>>
    /\ cm_op.key \notin Keys(heap[cm_op.receiver])
    /\ heap[Len(heap)] = heap[cm_op.receiver]

(***************************************************************************)
(* AugmentedDataSource.locations                                           *)
(*                                                                         *)
(* A location is [identifier, color]; color is None until one is assigned. *)
(* A color string is held as the sequence of its characters.               *)
(***************************************************************************)
MaxLocations == 2   \* locations of the wrapped source
MaxCacheRows == 2   \* rows of the DatasourceCache

ThisLayer == "this"     \* self.datasource_layer

LocationNames == <<"loc1", "loc2", "loc3", "loc4">>
LocationIds   == {LocationNames[i] : i \in 1..MaxLocations}

Gray == <<"8", "8", "8", "8", "8", "8">>   \* "888888"

\* colormap.color_for(value), for the two colormaps of the model.
ColorFor(colormap, value) ==
    IF colormap = "hashed"
    THEN (IF value = 1 THEN <<"#", "f", "0", "0">> ELSE <<"0", "f", "0">>)
    ELSE (IF value = 1 THEN <<"#", "#", "0", "0", "f">> ELSE <<>>)

StartsWith(string, char) == string # <<>> /\ string[1] = char

\* _colorfrom(): the row that colors this layer, or None.
ColorFrom(rows, datasource_layer) ==
    IF \E r \in rows : r.layer_to_add_color_to = datasource_layer
    THEN Some(CHOOSE r \in rows : r.layer_to_add_color_to = datasource_layer)
    ELSE None

\* The dict of cached values: a later row of a locationid replaces an
\* earlier one; no rows are read when there is no layer to get colors from.
RECURSIVE CachedValues(_, _, _)
CachedValues(rows, layer, cached_values) ==
    IF layer = None \/ rows = <<>> THEN cached_values
    ELSE LET row == Head(rows)
         IN  CachedValues(Tail(rows), layer,
                 IF row.datasource_layer = layer[1]
                 THEN [id \in DOMAIN cached_values \cup {row.locationid} |->
                          IF id = row.locationid THEN row.value
                          ELSE cached_values[id]]
                 ELSE cached_values)

\* A coloring that keeps the leading '#'.
LocationColorUnstripped(identifier, cached_values, colormap) ==
    IF identifier \in DOMAIN cached_values
    THEN ColorFor(colormap, cached_values[identifier])
    ELSE Gray

\* The body of the loop over the locations: the color of one location.
LocationColor(identifier, cached_values, colormap) ==
    IF identifier \in DOMAIN cached_values
    THEN LET color == ColorFor(colormap, cached_values[identifier])
         IN  IF StartsWith(color, "#") THEN Tail(color) ELSE color
    ELSE Gray

\* Everything the generator yields, in order.
YieldLocations(locations, bare, colorfrom_rows, cache_rows) ==
    LET colorfrom == IF bare THEN None
                     ELSE ColorFrom(colorfrom_rows, ThisLayer)
    IN  IF bare \/ colorfrom = None
        THEN locations
        ELSE LET cached_values ==
                     CachedValues(cache_rows,
                                  colorfrom[1].layer_to_get_color_from,
                                  <<>>)
             IN  [i \in 1..Len(locations) |->
                     [locations[i] EXCEPT !.color =
                         Some(LocationColor(locations[i].identifier,
                                            cached_values,
                                            colorfrom[1].colormap))]]

Locations(bare) ==
    /\ _original_datasource' = OriginalDatasource(_original_datasource)
    /\ wrapped_received' = <<[method |-> "locations", bare |-> bare]>>
    /\ returned' = [op |-> "locations", bare |-> bare,
                    value |-> YieldLocations(wrapped_locations, bare,
                                             layer_colorfroms,
                                             datasource_cache)]
    /\ raised' = NoError
    /\ UNCHANGED <<_choices_made, wrapped_choices_made, chooseable,
                   configVars, choicesVars, locationVars, overlayVars>>

\* The wrapped source's locations: distinct identifiers, no color yet.
WrappedLocationLists ==
    {[i \in 1..Len(ids) |-> [identifier |-> ids[i], color |-> None]] :
        ids \in {s \in UNION {[1..n -> LocationIds] : n \in 0..MaxLocations} :
                    \A i, j \in 1..Len(s) : i # j => s[i] # s[j]}}

ColorLayer == "color"   \* the layer the latest values are cached for

CacheRowCandidates ==
    {[datasource_layer |-> ColorLayer, locationid |-> id, value |-> v] :
        id \in LocationIds, v \in {1, 2}}
    \cup {[datasource_layer |-> "other", locationid |-> "loc1", value |-> 2]}

\* At most one ColorFromLatestValue row colors a layer.
ColorFromConfigurations ==
    { {},
      {[layer_to_add_color_to |-> "other", colormap |-> "hashed",
        layer_to_get_color_from |-> Some(ColorLayer)]},
      {[layer_to_add_color_to |-> ThisLayer, colormap |-> "hashed",
        layer_to_get_color_from |-> None]},
      {[layer_to_add_color_to |-> ThisLayer, colormap |-> "hashed",
        layer_to_get_color_from |-> Some(ColorLayer)]},
      {[layer_to_add_color_to |-> ThisLayer, colormap |-> "odd",
        layer_to_get_color_from |-> Some(ColorLayer)],
       [layer_to_add_color_to |-> "other", colormap |-> "hashed",
        layer_to_get_color_from |-> Some(ColorLayer)]} }

InitLocations ==
    /\ FilterIdle
    /\ ChoicesIdle
    /\ OverlayIdle
    /\ wrapped_locations \in WrappedLocationLists
    /\ datasource_cache \in
          UNION {[1..n -> CacheRowCandidates] : n \in 0..MaxCacheRows}
    /\ layer_colorfroms \in ColorFromConfigurations

NextLocations == \E bare \in BOOLEAN : Locations(bare)

SpecLocations == InitLocations /\ [][NextLocations]_vars

\* The rows that color this layer, and the latest cached value of a
\* location in the layer such a row gets its colors from.
ColorSpecs == {r \in layer_colorfroms : r.layer_to_add_color_to = "this"}

CacheHits(spec, identifier) ==
    {i \in 1..Len(datasource_cache) :
        /\ spec.layer_to_get_color_from # <<>>
        /\ datasource_cache[i].datasource_layer
              = spec.layer_to_get_color_from[1]
        /\ datasource_cache[i].locationid = identifier}

LatestValue(spec, identifier) ==
    LET hits == CacheHits(spec, identifier)
    IN  datasource_cache[CHOOSE i \in hits : \A j \in hits : j <= i].value

Stripped(color) ==
    IF Len(color) > 0 /\ Head(color) = "#"
    THEN SubSeq(color, 2, Len(color)) ELSE color

\* C8: locations() yields the wrapped source's locations in their order;
\* with a color spec for this layer and bare false each gets the gray
\* "888888" when it has no cached value and else the colormap's color for
\* the cached value without one leading '#'; with bare true or no color
\* spec they are yielded as they are, no color assigned.
C8_LocationsColored ==
    returned.op = "locations" =>
        IF returned.bare \/ ColorSpecs = {}
        THEN returned.value = wrapped_locations
        ELSE /\ Len(returned.value) = Len(wrapped_locations)
             /\ \A i \in 1..Len(wrapped_locations) :
                   /\ returned.value[i].identifier
                         = wrapped_locations[i].identifier
                   /\ \A spec \in ColorSpecs :
                         returned.value[i].color =
                           IF CacheHits(spec, returned.value[i].identifier) = {}
                           THEN <<(<<"8", "8", "8", "8", "8", "8">>)>>
                           ELSE <<Stripped(ColorFor(spec.colormap,
                                    LatestValue(spec,
                                        returned.value[i].identifier)))>>

\* One location got the gray and another a color whose '#' was stripped.
C8_Witness ==
    /\ returned.op = "locations"
    /\ ~returned.bare
    /\ \E i, j \in 1..Len(returned.value) :
          /\ returned.value[i].color = <<Gray>>
          /\ returned.value[j].color = <<(<<"f", "0", "0">>)>>

(***************************************************************************)
(* AugmentedDataSource.timeseries                                          *)
(*                                                                         *)
(* A time-series result is the sequence of the <<layer, identifier>>       *)
(* columns it holds; add(other) appends the other's columns.  An empty     *)
(* sequence is a result that is false in a condition (None, or no data).   *)
(***************************************************************************)
MaxLines == 2       \* ExtraGraphLine rows

SourceLayers == {"A", "B"}

\* The series a layer's source has for an identifier.
SourceTimeseries(layer, identifier) ==
    IF <<layer, identifier>> \in
          {<<ThisLayer, "loc1">>, <<ThisLayer, "loc2">>,
           <<"A", "s1">>, <<"B", "s2">>, <<"B", "loc1">>}
    THEN <<(<<layer, identifier>>)>>
    ELSE <<>>

TimeseriesAdd(timeseries, other) == timeseries \o other

NoIdentifier == ""      \* a map_identifier result that is false in a condition

\* extra_graph_line.map_identifier(location_id)
MapIdentifier(extra_graph_line, location_id) ==
    IF location_id \in DOMAIN extra_graph_line.identifier_mapping[1]
    THEN extra_graph_line.identifier_mapping[1][location_id]
    ELSE NoIdentifier

\* The rows the query of timeseries() returns, in order.
LinesToAddTo(rows, datasource_layer) ==
    SelectSeq(rows, LAMBDA r : r.layer_to_add_line_to = datasource_layer)

\* A loop body that asks the other layer for the location's own identifier.
ExtraLineUnmapped(acc, extra_graph_line, location_id) ==
    LET extra_identifier == MapIdentifier(extra_graph_line, location_id)
        layer_from == extra_graph_line.layer_to_get_line_from
        extra_timeseries == SourceTimeseries(layer_from, location_id)
    IN  IF extra_identifier = NoIdentifier
        THEN acc
        ELSE [timeseries |->
                  IF extra_timeseries # <<>>
                  THEN TimeseriesAdd(acc.timeseries, extra_timeseries)
                  ELSE acc.timeseries,
              calls |-> acc.calls \o
                  <<[method |-> "timeseries", layer |-> layer_from,
                     identifier |-> location_id]>> \o
                  (IF extra_timeseries # <<>>
                   THEN <<[method |-> "add", other |-> extra_timeseries]>>
                   ELSE <<>>)]

\* The body of the loop over the extra graph lines.
ExtraLine(acc, extra_graph_line, location_id) ==
    LET extra_identifier == MapIdentifier(extra_graph_line, location_id)
        layer_from == extra_graph_line.layer_to_get_line_from
        extra_timeseries == SourceTimeseries(layer_from, extra_identifier)
    IN  IF extra_identifier = NoIdentifier
        THEN acc
        ELSE [timeseries |->
                  IF extra_timeseries # <<>>
                  THEN TimeseriesAdd(acc.timeseries, extra_timeseries)
                  ELSE acc.timeseries,
              calls |-> acc.calls \o
                  <<[method |-> "timeseries", layer |-> layer_from,
                     identifier |-> extra_identifier]>> \o
                  (IF extra_timeseries # <<>>
                   THEN <<[method |-> "add", other |-> extra_timeseries]>>
                   ELSE <<>>)]

RECURSIVE ForEachExtraLine(_, _, _)
ForEachExtraLine(acc, lines, location_id) ==
    IF lines = <<>> THEN acc
    ELSE ForEachExtraLine(ExtraLine(acc, Head(lines), location_id),
                          Tail(lines), location_id)

Timeseries(location_id) ==
    LET r == ForEachExtraLine(
                 [timeseries |-> SourceTimeseries(ThisLayer, location_id),
                  calls |-> <<>>],
                 LinesToAddTo(extra_graph_lines, ThisLayer), location_id)
    IN  /\ _original_datasource' = OriginalDatasource(_original_datasource)
        /\ wrapped_received' =
               <<[method |-> "timeseries", location_id |-> location_id]>>
        /\ returned' = [op |-> "timeseries", location_id |-> location_id,
                        value |-> r.timeseries]
        /\ collaborator_calls' = r.calls
        /\ raised' = NoError
        /\ UNCHANGED <<_choices_made, wrapped_choices_made, chooseable,
                       configVars, choicesVars, locationVars,
                       extra_graph_lines, layer_locations,
                       percentile_layers>>

\* The identifier mappings a row can hold.
IdentifierMappings ==
    { <<>>,
      [id \in {"loc1"} |-> "s1"],
      [id \in {"loc1"} |-> "s2"],
      [id \in {"loc1", "loc2"} |-> IF id = "loc1" THEN "s1" ELSE "s2"] }

ExtraGraphLineCandidates ==
    {[layer_to_add_line_to |-> to, layer_to_get_line_from |-> from,
      identifier_mapping |-> Some(m), max_distance_for_mapping |-> 0] :
        to \in {ThisLayer, "other"}, from \in SourceLayers,
        m \in IdentifierMappings}

InitTimeseries ==
    /\ FilterIdle
    /\ ChoicesIdle
    /\ LocationsIdle
    /\ extra_graph_lines \in
          UNION {[1..n -> ExtraGraphLineCandidates] : n \in 0..MaxLines}
    /\ layer_locations = <<>>
    /\ collaborator_calls = <<>>
    /\ percentile_layers = <<>>

NextTimeseries == \E id \in {"loc1", "loc2", "loc3"} : Timeseries(id)

SpecTimeseries == InitTimeseries /\ [][NextTimeseries]_vars

\* The rows that add a line to this layer, in order, and of those the ones
\* whose mapping has an entry for the requested location.
OverlayRows ==
    SelectSeq(extra_graph_lines, LAMBDA r : r.layer_to_add_line_to = "this")

MappedRows ==
    SelectSeq(OverlayRows,
              LAMBDA r : returned.location_id \in DOMAIN r.identifier_mapping[1])

Fetched(r) ==
    SourceTimeseries(r.layer_to_get_line_from,
                     r.identifier_mapping[1][returned.location_id])

FetchCalls ==
    SelectSeq(collaborator_calls, LAMBDA c : c.method = "timeseries")

AddCalls == SelectSeq(collaborator_calls, LAMBDA c : c.method = "add")

\* The wrapped source's own series is the head of the result.
BaseOfResult ==
    LET base == SourceTimeseries("this", returned.location_id)
    IN  /\ Len(returned.value) >= Len(base)
        /\ SubSeq(returned.value, 1, Len(base)) = base

\* C9 as stated: the rows without an entry for the location are skipped,
\* and for every other row the source layer's series for the mapped
\* identifier is fetched and merged into the result via add.
C9_AsStated ==
    returned.op = "timeseries" =>
        /\ Len(FetchCalls) = Len(MappedRows)
        /\ \A i \in 1..Len(MappedRows) :
              /\ FetchCalls[i].layer = MappedRows[i].layer_to_get_line_from
              /\ FetchCalls[i].identifier =
                    MappedRows[i].identifier_mapping[1][returned.location_id]
        /\ Len(AddCalls) = Len(MappedRows)
        /\ \A i \in 1..Len(MappedRows) :
              AddCalls[i].other = Fetched(MappedRows[i])
        /\ BaseOfResult

\* C9, amended: the fetched series is merged via add only when it is not
\* empty; a row whose fetched series is empty adds nothing.
C9_OverlayMerged ==
    returned.op = "timeseries" =>
        LET merged == SelectSeq(MappedRows, LAMBDA r : Fetched(r) # <<>>)
        IN  /\ Len(FetchCalls) = Len(MappedRows)
            /\ \A i \in 1..Len(MappedRows) :
                  /\ FetchCalls[i].layer = MappedRows[i].layer_to_get_line_from
                  /\ FetchCalls[i].identifier =
                       MappedRows[i].identifier_mapping[1][returned.location_id]
            /\ Len(AddCalls) = Len(merged)
            /\ \A i \in 1..Len(merged) : AddCalls[i].other = Fetched(merged[i])
            /\ BaseOfResult
            /\ Len(returned.value) =
                  Len(SourceTimeseries("this", returned.location_id))
                      + Len(merged)

\* One row was skipped for want of an entry, one was fetched and merged,
\* and the result starts with the wrapped source's series.
C9_Witness ==
    /\ returned.op = "timeseries"
    /\ Len(OverlayRows) = 2
    /\ Len(MappedRows) = 1
    /\ Len(AddCalls) = 1
    /\ Len(returned.value) = 2

(***************************************************************************)
(* fill_mapping_with_closest_locations                                     *)
(*                                                                         *)
(* layer_locations[layer] is what the layer's datasource yields from       *)
(* locations(): records [identifier, latitude, longitude].                 *)
(***************************************************************************)
TargetLayer == "target"
SourceLayer == "source"

\* coordinates.wgs84_to_rd: a projection to planar coordinates.
Wgs84ToRd(a, b) == <<2 * a + 1, 3 * b + 2>>

\* dict((l.identifier, wgs84_to_rd(l.latitude, l.longitude)) for l in ...)
LocationDict(locations) ==
    [id \in {l.identifier : l \in Range(locations)} |->
        LET last == CHOOSE i \in 1..Len(locations) :
                       /\ locations[i].identifier = id
                       /\ \A j \in 1..Len(locations) :
                             locations[j].identifier = id => j <= i
        IN  Wgs84ToRd(locations[last].latitude, locations[last].longitude)]

SquaredDistance(p, q) ==
    LET dx == IF p[1] > q[1] THEN p[1] - q[1] ELSE q[1] - p[1]
        dy == IF p[2] > q[2] THEN p[2] - q[2] ELSE q[2] - p[2]
    IN  dx * dx + dy * dy

\* identifier_mapping.create_proximity_map: each identifier of
\* identifiers_from is mapped to the closest identifier of identifiers_to
\* that is within max_distance.
CreateProximityMap(identifiers_from, identifiers_to, max_distance) ==
    LET near(f) ==
            {t \in DOMAIN identifiers_to :
                SquaredDistance(identifiers_from[f], identifiers_to[t])
                    <= max_distance * max_distance}
        closest(f) ==
            CHOOSE t \in near(f) : \A u \in near(f) :
                SquaredDistance(identifiers_from[f], identifiers_to[t])
                    <= SquaredDistance(identifiers_from[f], identifiers_to[u])
    IN  [f \in {g \in DOMAIN identifiers_from : near(g) # {}} |-> closest(f)]

\* The call with the two dicts the other way round.
ProximityCallSwapped(extra_graph_line, locations) ==
    [method |-> "create_proximity_map",
     identifiers_from |->
         LocationDict(locations[extra_graph_line.layer_to_get_line_from]),
     identifiers_to |->
         LocationDict(locations[extra_graph_line.layer_to_add_line_to]),
     max_distance |-> extra_graph_line.max_distance_for_mapping]

\* The create_proximity_map call made for one extra graph line.
ProximityCall(extra_graph_line, locations) ==
    [method |-> "create_proximity_map",
     identifiers_from |->
         LocationDict(locations[extra_graph_line.layer_to_add_line_to]),
     identifiers_to |->
         LocationDict(locations[extra_graph_line.layer_to_get_line_from]),
     max_distance |-> extra_graph_line.max_distance_for_mapping]

\* The loop body: a row without an identifier mapping is skipped.
FillOne(extra_graph_line, locations) ==
    IF extra_graph_line.identifier_mapping = None
    THEN extra_graph_line
    ELSE LET call == ProximityCall(extra_graph_line, locations)
         IN  [extra_graph_line EXCEPT !.identifier_mapping =
                 Some(CreateProximityMap(call.identifiers_from,
                                         call.identifiers_to,
                                         call.max_distance))]

FillMappingWithClosestLocations ==
    /\ extra_graph_lines' =
          [i \in 1..Len(extra_graph_lines) |->
              FillOne(extra_graph_lines[i], layer_locations)]
    /\ collaborator_calls' =
          LET mapped == SelectSeq(extra_graph_lines,
                            LAMBDA r : r.identifier_mapping # None)
          IN  [i \in 1..Len(mapped) |->
                  ProximityCall(mapped[i], layer_locations)]
    /\ returned' = [op |-> "fill_mapping_with_closest_locations"]
    /\ raised' = NoError
    /\ UNCHANGED <<instanceVars, wrappedVars, configVars, choicesVars,
                   locationVars, layer_locations, percentile_layers>>

\* The locations layers can have: T1 and S1 lie at the same place.
TargetLocations ==
    { <<>>,
      <<[identifier |-> "T1", latitude |-> 0, longitude |-> 0]>>,
      <<[identifier |-> "T1", latitude |-> 0, longitude |-> 0],
        [identifier |-> "T2", latitude |-> 2, longitude |-> 0]>> }

SourceLocations ==
    { <<>>,
      <<[identifier |-> "S1", latitude |-> 0, longitude |-> 0]>>,
      <<[identifier |-> "S2", latitude |-> 2, longitude |-> 1]>>,
      <<[identifier |-> "S1", latitude |-> 0, longitude |-> 0],
        [identifier |-> "S2", latitude |-> 2, longitude |-> 1]>> }

MappingLineCandidates ==
    {[layer_to_add_line_to |-> TargetLayer,
      layer_to_get_line_from |-> SourceLayer,
      identifier_mapping |-> m, max_distance_for_mapping |-> d] :
        m \in {None, Some(<<>>)}, d \in {0, 3}}
    \cup
    {[layer_to_add_line_to |-> SourceLayer,
      layer_to_get_line_from |-> TargetLayer,
      identifier_mapping |-> Some(<<>>), max_distance_for_mapping |-> 3]}

InitMapping ==
    /\ FilterIdle
    /\ ChoicesIdle
    /\ LocationsIdle
    /\ extra_graph_lines \in
          UNION {[1..n -> MappingLineCandidates] : n \in 0..MaxLines}
    /\ layer_locations \in
          {[l \in {TargetLayer, SourceLayer} |->
               IF l = TargetLayer THEN t ELSE s] :
              t \in TargetLocations, s \in SourceLocations}
    /\ collaborator_calls = <<>>
    /\ percentile_layers = <<>>

NextMapping == FillMappingWithClosestLocations

SpecMapping == InitMapping /\ [][NextMapping]_vars

Identifiers(layer) == {l.identifier : l \in Range(layer_locations[layer])}

\* C10: for every row with an identifier mapping the proximity map goes
\* from the identifiers of layer_to_add_line_to to those of
\* layer_to_get_line_from: a target location T1 on the spot of a source
\* location S1 is mapped to S1 and S1 is not mapped; no call is made for a
\* row without an identifier mapping.
C10_MappingDirection ==
    returned.op = "fill_mapping_with_closest_locations" =>
        LET mapped == {i \in 1..Len(extra_graph_lines) :
                          extra_graph_lines[i].identifier_mapping # <<>>}
        IN
        /\ Len(collaborator_calls) = Cardinality(mapped)
        /\ \A i \in mapped :
            LET row  == extra_graph_lines[i]
                to   == row.layer_to_add_line_to
                from == row.layer_to_get_line_from
                map  == row.identifier_mapping[1]
                call == collaborator_calls[
                            Cardinality({j \in mapped : j <= i})]
            IN  /\ DOMAIN call.identifiers_from = Identifiers(to)
                /\ DOMAIN call.identifiers_to = Identifiers(from)
                /\ DOMAIN map \subseteq Identifiers(to)
                /\ \A id \in DOMAIN map : map[id] \in Identifiers(from)
                /\ (to = "target" /\ from = "source"
                    /\ "T1" \in Identifiers(to)
                    /\ "S1" \in Identifiers(from))
                      => /\ "T1" \in DOMAIN map
                         /\ map["T1"] = "S1"
                         /\ "S1" \notin DOMAIN map

\* A row without an identifier mapping was skipped and the one call made
\* mapped T1 to S1.
C10_Witness ==
    /\ returned.op = "fill_mapping_with_closest_locations"
    /\ \E i, j \in 1..Len(extra_graph_lines) :
          /\ extra_graph_lines[i].identifier_mapping = <<>>
          /\ extra_graph_lines[j].identifier_mapping # <<>>
          /\ extra_graph_lines[j].layer_to_add_line_to = "target"
          /\ "T1" \in DOMAIN extra_graph_lines[j].identifier_mapping[1]
          /\ extra_graph_lines[j].identifier_mapping[1]["T1"] = "S1"
    /\ Len(collaborator_calls) = 1

(***************************************************************************)
(* AugmentedDataSource.has_percentiles and percentiles                     *)
(*                                                                         *)
(* The result of percentiles() is a dict: a function from the percentile   *)
(* values it holds to the data stored under them.                          *)
(***************************************************************************)
MaxPercentileLayers == 2        \* PercentileLayer rows

PercentileValues == {10, 90}

\* What a source's timeseries() hands back when it has no series for the
\* location: the plugin decides, None or a result object without columns.
MissingOutcomes == {"None", "empty"}

\* timeseries.data(): the points of each column of the result.
TimeseriesData(timeseries) ==
    [i \in 1..Len(timeseries) |->
        [layer |-> timeseries[i][1], identifier |-> timeseries[i][2],
         points |-> "points"]]

\* percentiles = {}
EmptyDict == [k \in {} |-> <<>>]

\* percentiles[key] = value
SetItem(dict, key, value) ==
    [k \in DOMAIN dict \cup {key} |-> IF k = key THEN value ELSE dict[k]]

\* The rows the query of percentiles() returns, in order.
PercentileLayersFor(rows, datasource_layer) ==
    SelectSeq(rows, LAMBDA r : r.layer_to_add_percentile_to = datasource_layer)

\* The body of the loop over the percentile layers: .data() is called on
\* whatever the source's timeseries() returned.
PercentileBody(acc, percentile_layer, location_id, missing) ==
    LET layer_from == percentile_layer.layer_to_get_percentile_from
        found == SourceTimeseries(layer_from, location_id)
        call == [method |-> "timeseries", layer |-> layer_from,
                 identifier |-> location_id]
    IN  IF acc.raised # NoError
        THEN acc
        ELSE IF found = <<>> /\ missing = "None"
        THEN [acc EXCEPT !.raised = "AttributeError",
                         !.calls = Append(@, call)]
        ELSE [acc EXCEPT !.percentiles =
                            SetItem(@, percentile_layer.percentile,
                                    TimeseriesData(found)),
                         !.calls = Append(@, call)]

RECURSIVE ForEachPercentileLayer(_, _, _, _)
ForEachPercentileLayer(acc, rows, location_id, missing) ==
    IF rows = <<>> THEN acc
    ELSE ForEachPercentileLayer(
             PercentileBody(acc, Head(rows), location_id, missing),
             Tail(rows), location_id, missing)

HasPercentiles ==
    /\ returned' = [op |-> "has_percentiles",
                    value |-> PercentileLayersFor(percentile_layers,
                                                  ThisLayer) # <<>>]
    /\ raised' = NoError
    /\ wrapped_received' = <<>>
    /\ collaborator_calls' = <<>>
    /\ UNCHANGED <<instanceVars, wrapped_choices_made, chooseable,
                   configVars, choicesVars, locationVars,
                   extra_graph_lines, layer_locations, percentile_layers>>

Percentiles(location_id) ==
    \E missing \in MissingOutcomes :
        LET r == ForEachPercentileLayer(
                     [percentiles |-> EmptyDict, calls |-> <<>>,
                      raised |-> NoError],
                     PercentileLayersFor(percentile_layers, ThisLayer),
                     location_id, missing)
        IN  /\ returned' = [op |-> "percentiles",
                            location_id |-> location_id,
                            value |-> IF r.raised = NoError
                                      THEN r.percentiles ELSE EmptyDict]
            /\ raised' = r.raised
            /\ wrapped_received' = <<>>
            /\ collaborator_calls' = r.calls
            /\ UNCHANGED <<instanceVars, wrapped_choices_made, chooseable,
                           configVars, choicesVars, locationVars,
                           extra_graph_lines, layer_locations,
                           percentile_layers>>

PercentileLayerCandidates ==
    {[layer_to_add_percentile_to |-> to,
      layer_to_get_percentile_from |-> from, percentile |-> p] :
        to \in {ThisLayer, "other"}, from \in SourceLayers,
        p \in PercentileValues}

InitPercentiles ==
    /\ FilterIdle
    /\ ChoicesIdle
    /\ LocationsIdle
    /\ extra_graph_lines = <<>>
    /\ layer_locations = <<>>
    /\ collaborator_calls = <<>>
    /\ percentile_layers \in
          UNION {[1..n -> PercentileLayerCandidates] :
                     n \in 0..MaxPercentileLayers}

NextPercentiles ==
    \/ HasPercentiles
    \/ \E id \in {"loc1", "loc2"} : Percentiles(id)

SpecPercentiles == InitPercentiles /\ [][NextPercentiles]_vars

\* The rows for this layer, and whether a row's source has a series for
\* the location.
RowsForThisLayer ==
    {i \in 1..Len(percentile_layers) :
        percentile_layers[i].layer_to_add_percentile_to = "this"}

RowHasData(i, location_id) ==
    <<percentile_layers[i].layer_to_get_percentile_from, location_id>>
        \in {<<"B", "loc1">>}

\* C11 as the specification states it: percentiles() completes without
\* failing, its result holds exactly the percentile values of the rows for
\* this layer whose source layer has a series for the location, and a
\* percentile whose source has none is left out.
C11_AsStated ==
    returned.op = "percentiles" =>
        /\ raised = NoError
        /\ \A i \in RowsForThisLayer :
              RowHasData(i, returned.location_id)
                  => percentile_layers[i].percentile \in DOMAIN returned.value
        /\ \A p \in DOMAIN returned.value :
              \E i \in RowsForThisLayer :
                  /\ percentile_layers[i].percentile = p
                  /\ RowHasData(i, returned.location_id)

(***************************************************************************)
(* The work lists of the while loop of visible_criteria().                 *)
(***************************************************************************)
\* The value of criteria at the start of each pass of the while loop, for
\* the stored selection and the configured rows.
RECURSIVE WorkLists(_, _)
WorkLists(criteria, clean) ==
    IF criteria = <<>> THEN <<>>
    ELSE LET acc == ForEachChooseable(criteria, 1, _choices_made[1],
                        ForbiddenChoicesJson(colorfroms, percentiles),
                        [retry |-> <<>>, clean |-> clean,
                         raised |-> NoError])
         IN  <<criteria>> \o WorkLists(acc.retry, acc.clean)

\* The length of the longest OptionList of the chooseable criteria.
LongestOptionList ==
    IF chooseable = <<>> THEN 0
    ELSE CHOOSE n \in {Len(chooseable[i].options) : i \in 1..Len(chooseable)} :
             \A i \in 1..Len(chooseable) : Len(chooseable[i].options) <= n

\* later is earlier with exactly one option taken out.
OneOptionRemoved(earlier, later) ==
    /\ Len(later) = Len(earlier) - 1
    /\ \E k \in 1..Len(earlier) :
          later = SubSeq(earlier, 1, k - 1) \o SubSeq(earlier, k + 1, Len(earlier))

\* C12: visible_criteria() ends for every stored selection and every set of
\* hidden rows: the while loop runs once per work list, every pair of a
\* later work list is a pair of the work list before it with exactly one
\* option removed, and the number of passes is at most one more than the
\* length of the longest OptionList.
C12_FilterTerminates ==
    Filtered =>
        LET lists == WorkLists(chooseable, <<>>)
        IN  /\ returned.passes = Len(lists)
            /\ returned.passes <= LongestOptionList + 1
            /\ \A p \in 1..(Len(lists) - 1) :
                  \A j \in 1..Len(lists[p + 1]) :
                      \E i \in 1..Len(lists[p]) :
                          /\ lists[p][i].criterion = lists[p + 1][j].criterion
                          /\ OneOptionRemoved(lists[p][i].options,
                                              lists[p + 1][j].options)

\* The loop ran three passes: a criterion with three options was re-queued
\* twice, the second time after its middle option was found forbidden.
C12_Witness ==
    /\ Filtered
    /\ returned.passes = 3
    /\ \E i \in 1..Len(chooseable) :
          /\ Len(chooseable[i].options) = 3
          /\ IsForbidden(chooseable[i].criterion, chooseable[i].options[2])

(***************************************************************************)
(* One instance under any sequence of its operations: accesses of          *)
(* original_datasource, set_choices_made, visible_criteria and the methods *)
(* that only forward to the wrapped source.                                *)
(***************************************************************************)
\* The methods whose body is a call of the same method of the wrapped
\* source.
DelegatedMethods ==
    {"PROPERTIES", "criteria", "options_for_criterion",
     "chooseable_criteria", "is_applicable", "is_drawable", "expand"}

\* What the wrapped source answers to a forwarded call.
WrappedAnswer(method) ==
    IF method = "chooseable_criteria"
    THEN chooseable
    ELSE <<"wrapped", method>>

\* Reading the original_datasource property.
AccessOriginalDatasource ==
    /\ _original_datasource' = OriginalDatasource(_original_datasource)
    /\ returned' = [op |-> "original_datasource",
                    value |-> OriginalDatasource(_original_datasource)]
    /\ raised' = NoError
    /\ wrapped_received' = <<>>
    /\ UNCHANGED <<_choices_made, wrapped_choices_made, chooseable, configVars,
                   notFilter>>

\* A forwarding method: self.original_datasource.method(...).
Delegated(method) ==
    /\ _original_datasource' = OriginalDatasource(_original_datasource)
    /\ wrapped_received' = <<[method |-> method]>>
    /\ returned' = [op |-> "delegated", method |-> method,
                    value |-> WrappedAnswer(method)]
    /\ raised' = NoError
    /\ UNCHANGED <<_choices_made, wrapped_choices_made, chooseable, configVars,
                   notFilter>>

InitInstance ==
    /\ InstanceInit
    /\ chooseable \in Chooseables
    /\ colorfroms = {}
    /\ percentiles = {}
    /\ ChoicesIdle
    /\ LocationsIdle
    /\ OverlayIdle

NextInstance ==
    \/ AccessOriginalDatasource
    \/ \E cm \in Selections : SetChoicesMade(cm)
    \/ VisibleCriteria
    \/ \E method \in DelegatedMethods : Delegated(method)

SpecInstance == InitInstance /\ [][NextInstance]_vars

\* C13 as the specification states it: once the memoized wrapped-source
\* reference holds a value no step changes it, and once the stored selection
\* holds a value no step changes it either.
C13_AsStated ==
    [][ /\ _original_datasource # Unset
            => _original_datasource' = _original_datasource
        /\ _choices_made # None => _choices_made' = _choices_made ]_vars

\* C13: every operation leaves the wrapped source resolved; once resolved
\* the memoized reference never changes, and an access of
\* original_datasource returns that same object; the stored selection
\* changes only in a set_choices_made call, which overwrites it with its
\* argument whether or not a selection was stored before.
C13_MemoWrittenOnce ==
    [][ /\ _original_datasource' # Unset
        /\ _original_datasource # Unset
              => _original_datasource' = _original_datasource
        /\ returned'.op = "original_datasource"
              => returned'.value = _original_datasource'
        /\ _choices_made' # _choices_made
              => /\ returned'.op = "set_choices_made"
                 /\ _choices_made' = Some(returned'.arg)
        /\ returned'.op # "set_choices_made"
              => _choices_made' = _choices_made ]_vars

\* The property was read after a selection had been stored and the wrapped
\* source had been resolved by an earlier call.
C13_Witness ==
    /\ returned.op = "original_datasource"
    /\ returned.value = "wrapped"
    /\ _original_datasource = "wrapped"
    /\ _choices_made = Some(<<(<<"parameter", "a">>)>>)
    /\ wrapped_choices_made = _choices_made

=============================================================================
